---- MODULE Spec2Model ----
(***************************************************************************)
(* A model of the timer overlay's core: the global input SequenceDetector  *)
(* driven by the listener thread, the mpsc command channel, and the timer  *)
(* pool that TimerState::update maintains on every UI tick.                *)
(*                                                                         *)
(* Time is counted in clock ticks; TicksPerMilli ticks make a millisecond, *)
(* so that Instant's sub-millisecond resolution is visible to the model.   *)
(***************************************************************************)
EXTENDS Integers, Sequences, FiniteSets, TLC

VARIABLES
    config,     \* the Config handed to TimerState::new (immutable afterwards)
    detector,   \* the SequenceDetector owned by the listener thread
    chan,       \* commands sent and not yet received (mpsc channel, FIFO)
    timers,     \* TimerState.timers
    now,        \* the reading Instant::now() returns
    pc,         \* position of the tick context inside TimerState::update
    idx,        \* loop index of the retain / render loop of the current tick
    shown,      \* what the render loop of the current tick has painted so far
    sent,       \* history: number of times the listener has called tx.send
    hist,       \* history: the last two on_input calls, oldest first
    armed,      \* history: a start gesture is pending (see Armed)
    received,   \* history: the commands try_recv has returned, in order
    rx_alive,   \* TimerState (and with it the Receiver) has not been dropped
    listening,  \* the listener thread is running its callback
    arms        \* history: number of Idle -> AwaitingConfirm transitions, counted
                \* from 0; -1 in the specifications that do not count them

vars == <<config, detector, chan, timers, now, pc, idx, shown, sent, hist, armed,
          received, rx_alive, listening, arms>>

(***************************************************************************)
(* Bounds of the model.                                                    *)
(***************************************************************************)
MaxTime == 2          \* the clock stops advancing at this reading
MaxSent == 3          \* the listener sends at most this many commands
MaxCap == 2           \* max_timers ranges over 1..MaxCap
MaxArms == 3          \* where counted, the detector is armed at most this many times
TicksPerMilli == 2    \* clock ticks per millisecond

(***************************************************************************)
(* rdev::Key and rdev::Button.  A value is a record of the variant's name  *)
(* and, for Unknown(code), its code (0 for the named variants).            *)
(***************************************************************************)
NamedKey(name) == [tag |-> name, code |-> 0]
KeyUnknown(n) == [tag |-> "Unknown", code |-> n]
NamedButton(name) == [tag |-> name, code |-> 0]
ButtonUnknown(n) == [tag |-> "Unknown", code |-> n]

\* the arms of key_to_string for the named variants: variant |-> text
KeyToString ==
    [Alt |-> "Alt", AltGr |-> "AltGr", Backspace |-> "Backspace",
     CapsLock |-> "CapsLock", ControlLeft |-> "ControlLeft",
     ControlRight |-> "ControlRight", Delete |-> "Delete",
     DownArrow |-> "DownArrow", End |-> "End", Escape |-> "Escape", F1 |-> "F1",
     F2 |-> "F2", F3 |-> "F3", F4 |-> "F4", F5 |-> "F5", F6 |-> "F6",
     F7 |-> "F7", F8 |-> "F8", F9 |-> "F9", F10 |-> "F10", F11 |-> "F11",
     F12 |-> "F12", F13 |-> "F13", F14 |-> "F14", F15 |-> "F15", F16 |-> "F16",
     F17 |-> "F17", F18 |-> "F18", F19 |-> "F19", F20 |-> "F20", F21 |-> "F21",
     F22 |-> "F22", F23 |-> "F23", F24 |-> "F24", Home |-> "Home",
     LeftArrow |-> "LeftArrow", MetaLeft |-> "MetaLeft",
     MetaRight |-> "MetaRight", PageDown |-> "PageDown", PageUp |-> "PageUp",
     Return |-> "Return", RightArrow |-> "RightArrow",
     ShiftLeft |-> "ShiftLeft", ShiftRight |-> "ShiftRight", Space |-> "Space",
     Tab |-> "Tab", UpArrow |-> "UpArrow", PrintScreen |-> "PrintScreen",
     ScrollLock |-> "ScrollLock", Pause |-> "Pause", NumLock |-> "NumLock",
     BackQuote |-> "BackQuote", Num1 |-> "Num1", Num2 |-> "Num2",
     Num3 |-> "Num3", Num4 |-> "Num4", Num5 |-> "Num5", Num6 |-> "Num6",
     Num7 |-> "Num7", Num8 |-> "Num8", Num9 |-> "Num9", Num0 |-> "Num0",
     Minus |-> "Minus", Equal |-> "Equal", KeyQ |-> "KeyQ", KeyW |-> "KeyW",
     KeyE |-> "KeyE", KeyR |-> "KeyR", KeyT |-> "KeyT", KeyY |-> "KeyY",
     KeyU |-> "KeyU", KeyI |-> "KeyI", KeyO |-> "KeyO", KeyP |-> "KeyP",
     LeftBracket |-> "LeftBracket", RightBracket |-> "RightBracket",
     KeyA |-> "KeyA", KeyS |-> "KeyS", KeyD |-> "KeyD", KeyF |-> "KeyF",
     KeyG |-> "KeyG", KeyH |-> "KeyH", KeyJ |-> "KeyJ", KeyK |-> "KeyK",
     KeyL |-> "KeyL", SemiColon |-> "SemiColon", Quote |-> "Quote",
     BackSlash |-> "BackSlash", IntlBackslash |-> "IntlBackslash",
     KeyZ |-> "KeyZ", KeyX |-> "KeyX", KeyC |-> "KeyC", KeyV |-> "KeyV",
     KeyB |-> "KeyB", KeyN |-> "KeyN", KeyM |-> "KeyM", Comma |-> "Comma",
     Dot |-> "Dot", Slash |-> "Slash", Insert |-> "Insert",
     KpReturn |-> "KpReturn", KpMinus |-> "KpMinus", KpPlus |-> "KpPlus",
     KpMultiply |-> "KpMultiply", KpDivide |-> "KpDivide", Kp0 |-> "Kp0",
     Kp1 |-> "Kp1", Kp2 |-> "Kp2", Kp3 |-> "Kp3", Kp4 |-> "Kp4", Kp5 |-> "Kp5",
     Kp6 |-> "Kp6", Kp7 |-> "Kp7", Kp8 |-> "Kp8", Kp9 |-> "Kp9",
     KpDelete |-> "KpDelete", Function |-> "Function", VolumeUp |-> "VolumeUp",
     VolumeDown |-> "VolumeDown", VolumeMute |-> "VolumeMute",
     BrightnessUp |-> "BrightnessUp", BrightnessDown |-> "BrightnessDown",
     PreviousTrack |-> "PreviousTrack", PlayPause |-> "PlayPause",
     PlayCd |-> "PlayCd", NextTrack |-> "NextTrack"]

\* the arms of string_to_key: text |-> variant
StringToKey ==
    [Alt |-> "Alt", AltGr |-> "AltGr", Backspace |-> "Backspace",
     CapsLock |-> "CapsLock", ControlLeft |-> "ControlLeft",
     ControlRight |-> "ControlRight", Delete |-> "Delete",
     DownArrow |-> "DownArrow", End |-> "End", Escape |-> "Escape", F1 |-> "F1",
     F2 |-> "F2", F3 |-> "F3", F4 |-> "F4", F5 |-> "F5", F6 |-> "F6",
     F7 |-> "F7", F8 |-> "F8", F9 |-> "F9", F10 |-> "F10", F11 |-> "F11",
     F12 |-> "F12", F13 |-> "F13", F14 |-> "F14", F15 |-> "F15", F16 |-> "F16",
     F17 |-> "F17", F18 |-> "F18", F19 |-> "F19", F20 |-> "F20", F21 |-> "F21",
     F22 |-> "F22", F23 |-> "F23", F24 |-> "F24", Home |-> "Home",
     LeftArrow |-> "LeftArrow", MetaLeft |-> "MetaLeft",
     MetaRight |-> "MetaRight", PageDown |-> "PageDown", PageUp |-> "PageUp",
     Return |-> "Return", RightArrow |-> "RightArrow",
     ShiftLeft |-> "ShiftLeft", ShiftRight |-> "ShiftRight", Space |-> "Space",
     Tab |-> "Tab", UpArrow |-> "UpArrow", PrintScreen |-> "PrintScreen",
     ScrollLock |-> "ScrollLock", Pause |-> "Pause", NumLock |-> "NumLock",
     BackQuote |-> "BackQuote", Num1 |-> "Num1", Num2 |-> "Num2",
     Num3 |-> "Num3", Num4 |-> "Num4", Num5 |-> "Num5", Num6 |-> "Num6",
     Num7 |-> "Num7", Num8 |-> "Num8", Num9 |-> "Num9", Num0 |-> "Num0",
     Minus |-> "Minus", Equal |-> "Equal", KeyQ |-> "KeyQ", KeyW |-> "KeyW",
     KeyE |-> "KeyE", KeyR |-> "KeyR", KeyT |-> "KeyT", KeyY |-> "KeyY",
     KeyU |-> "KeyU", KeyI |-> "KeyI", KeyO |-> "KeyO", KeyP |-> "KeyP",
     LeftBracket |-> "LeftBracket", RightBracket |-> "RightBracket",
     KeyA |-> "KeyA", KeyS |-> "KeyS", KeyD |-> "KeyD", KeyF |-> "KeyF",
     KeyG |-> "KeyG", KeyH |-> "KeyH", KeyJ |-> "KeyJ", KeyK |-> "KeyK",
     KeyL |-> "KeyL", SemiColon |-> "SemiColon", Quote |-> "Quote",
     BackSlash |-> "BackSlash", IntlBackslash |-> "IntlBackslash",
     KeyZ |-> "KeyZ", KeyX |-> "KeyX", KeyC |-> "KeyC", KeyV |-> "KeyV",
     KeyB |-> "KeyB", KeyN |-> "KeyN", KeyM |-> "KeyM", Comma |-> "Comma",
     Dot |-> "Dot", Slash |-> "Slash", Insert |-> "Insert",
     KpReturn |-> "KpReturn", KpMinus |-> "KpMinus", KpPlus |-> "KpPlus",
     KpMultiply |-> "KpMultiply", KpDivide |-> "KpDivide", Kp0 |-> "Kp0",
     Kp1 |-> "Kp1", Kp2 |-> "Kp2", Kp3 |-> "Kp3", Kp4 |-> "Kp4", Kp5 |-> "Kp5",
     Kp6 |-> "Kp6", Kp7 |-> "Kp7", Kp8 |-> "Kp8", Kp9 |-> "Kp9",
     KpDelete |-> "KpDelete", Function |-> "Function", VolumeUp |-> "VolumeUp",
     VolumeDown |-> "VolumeDown", VolumeMute |-> "VolumeMute",
     BrightnessUp |-> "BrightnessUp", BrightnessDown |-> "BrightnessDown",
     PreviousTrack |-> "PreviousTrack", PlayPause |-> "PlayPause",
     PlayCd |-> "PlayCd", NextTrack |-> "NextTrack"]

\* the arms of button_to_string for the named variants: variant |-> text
ButtonToString ==
    [Left |-> "Left", Right |-> "Right", Middle |-> "Middle"]

\* the arms of string_to_button: text |-> variant
StringToButton ==
    [Left |-> "Left", Right |-> "Right", Middle |-> "Middle"]

KeyNames == DOMAIN StringToKey
ButtonNames == DOMAIN StringToButton

\* the keys and buttons the platform reports as pressed
PressedKeys == {NamedKey("KeyE"), NamedKey("Escape"), KeyUnknown(1)}
PressedButtons == {NamedButton("Right"), ButtonUnknown(1)}

None == [some |-> FALSE, val |-> "none"]
Some(x) == [some |-> TRUE, val |-> x]

\* key_to_string: each named variant prints as its name, Unknown(code) as "Unknown(code)"
key_to_string(key) ==
    IF key.tag = "Unknown" THEN "Unknown(" \o ToString(key.code) \o ")"
    ELSE KeyToString[key.tag]

\* string_to_key: the table has an entry per named key and none for "Unknown(..)"
string_to_key(s) ==
    IF s \in KeyNames THEN Some(NamedKey(StringToKey[s])) ELSE None

button_to_string(button) ==
    IF button.tag = "Unknown" THEN "Unknown(" \o ToString(button.code) \o ")"
    ELSE ButtonToString[button.tag]

string_to_button(s) ==
    IF s \in ButtonNames THEN Some(NamedButton(StringToButton[s])) ELSE None

get_all_keys ==
    <<NamedKey("Alt"), NamedKey("AltGr"), NamedKey("Backspace"),
      NamedKey("CapsLock"), NamedKey("ControlLeft"), NamedKey("ControlRight"),
      NamedKey("Delete"), NamedKey("DownArrow"), NamedKey("End"),
      NamedKey("Escape"), NamedKey("F1"), NamedKey("F2"), NamedKey("F3"),
      NamedKey("F4"), NamedKey("F5"), NamedKey("F6"), NamedKey("F7"),
      NamedKey("F8"), NamedKey("F9"), NamedKey("F10"), NamedKey("F11"),
      NamedKey("F12"), NamedKey("F13"), NamedKey("F14"), NamedKey("F15"),
      NamedKey("F16"), NamedKey("F17"), NamedKey("F18"), NamedKey("F19"),
      NamedKey("F20"), NamedKey("F21"), NamedKey("F22"), NamedKey("F23"),
      NamedKey("F24"), NamedKey("Home"), NamedKey("LeftArrow"),
      NamedKey("MetaLeft"), NamedKey("MetaRight"), NamedKey("PageDown"),
      NamedKey("PageUp"), NamedKey("Return"), NamedKey("RightArrow"),
      NamedKey("ShiftLeft"), NamedKey("ShiftRight"), NamedKey("Space"),
      NamedKey("Tab"), NamedKey("UpArrow"), NamedKey("PrintScreen"),
      NamedKey("ScrollLock"), NamedKey("Pause"), NamedKey("NumLock"),
      NamedKey("BackQuote"), NamedKey("Num1"), NamedKey("Num2"),
      NamedKey("Num3"), NamedKey("Num4"), NamedKey("Num5"), NamedKey("Num6"),
      NamedKey("Num7"), NamedKey("Num8"), NamedKey("Num9"), NamedKey("Num0"),
      NamedKey("Minus"), NamedKey("Equal"), NamedKey("KeyQ"), NamedKey("KeyW"),
      NamedKey("KeyE"), NamedKey("KeyR"), NamedKey("KeyT"), NamedKey("KeyY"),
      NamedKey("KeyU"), NamedKey("KeyI"), NamedKey("KeyO"), NamedKey("KeyP"),
      NamedKey("LeftBracket"), NamedKey("RightBracket"), NamedKey("KeyA"),
      NamedKey("KeyS"), NamedKey("KeyD"), NamedKey("KeyF"), NamedKey("KeyG"),
      NamedKey("KeyH"), NamedKey("KeyJ"), NamedKey("KeyK"), NamedKey("KeyL"),
      NamedKey("SemiColon"), NamedKey("Quote"), NamedKey("BackSlash"),
      NamedKey("IntlBackslash"), NamedKey("KeyZ"), NamedKey("KeyX"),
      NamedKey("KeyC"), NamedKey("KeyV"), NamedKey("KeyB"), NamedKey("KeyN"),
      NamedKey("KeyM"), NamedKey("Comma"), NamedKey("Dot"), NamedKey("Slash"),
      NamedKey("Insert"), NamedKey("KpReturn"), NamedKey("KpMinus"),
      NamedKey("KpPlus"), NamedKey("KpMultiply"), NamedKey("KpDivide"),
      NamedKey("Kp0"), NamedKey("Kp1"), NamedKey("Kp2"), NamedKey("Kp3"),
      NamedKey("Kp4"), NamedKey("Kp5"), NamedKey("Kp6"), NamedKey("Kp7"),
      NamedKey("Kp8"), NamedKey("Kp9"), NamedKey("KpDelete"),
      NamedKey("VolumeUp"), NamedKey("VolumeDown"), NamedKey("VolumeMute"),
      NamedKey("BrightnessUp"), NamedKey("BrightnessDown"),
      NamedKey("PreviousTrack"), NamedKey("PlayPause"), NamedKey("PlayCd"),
      NamedKey("NextTrack")>>
get_all_buttons == <<NamedButton("Left"), NamedButton("Middle"), NamedButton("Right")>>

(***************************************************************************)
(* InputBinding and its persisted string form.  A string is modelled as    *)
(* the pair of its leading "Key:" / "Mouse:" prefix ("" when it has        *)
(* neither) and the rest of the text.                                      *)
(***************************************************************************)
BindingKey(key) == [variant |-> "Key", id |-> key]
BindingMouse(button) == [variant |-> "Mouse", id |-> button]

Str(prefix, rest) == [prefix |-> prefix, rest |-> rest]

strip_prefix(s, p) == IF s.prefix = p THEN Some(s.rest) ELSE None

\* Option::map(InputBinding::Key) and Option::map(InputBinding::Mouse)
MapKey(o) == IF o.some THEN Some(BindingKey(o.val)) ELSE None
MapMouse(o) == IF o.some THEN Some(BindingMouse(o.val)) ELSE None

\* variant: a prefixed string whose name is unknown is tried again as a legacy string
from_string_retries_legacy(s) ==
    LET legacy == IF s.rest = "RightMouse" THEN Some(BindingMouse(NamedButton("Right")))
                  ELSE MapKey(string_to_key(s.rest))
        key == MapKey(string_to_key(s.rest))
        mouse == MapMouse(string_to_button(s.rest))
    IN IF s.prefix = "Key:" THEN (IF key.some THEN key ELSE legacy)
       ELSE IF s.prefix = "Mouse:" THEN (IF mouse.some THEN mouse ELSE legacy)
       ELSE legacy

from_string(s) ==
    IF strip_prefix(s, "Key:").some
    THEN MapKey(string_to_key(strip_prefix(s, "Key:").val))
    ELSE IF strip_prefix(s, "Mouse:").some
    THEN MapMouse(string_to_button(strip_prefix(s, "Mouse:").val))
    ELSE IF s = Str("", "RightMouse")
    THEN Some(BindingMouse(NamedButton("Right")))
    ELSE MapKey(string_to_key(s.rest))

\* variant: the legacy format, the name without a prefix
to_string_bare(binding) ==
    IF binding.variant = "Key"
    THEN Str("", key_to_string(binding.id))
    ELSE Str("", button_to_string(binding.id))

to_string(binding) ==
    IF binding.variant = "Key"
    THEN Str("Key:", key_to_string(binding.id))
    ELSE Str("Mouse:", button_to_string(binding.id))

unwrap_or(o, d) == IF o.some THEN o.val ELSE d

(***************************************************************************)
(* SequenceDetector                                                        *)
(***************************************************************************)
RECURSIVE CancelOf(_, _)
\* the loop of SequenceDetector::new over config.cancelable_keys: the parsed
\* bindings of the given variant, in order, unparsable entries skipped
CancelOf(strs, variant) ==
    IF strs = <<>> THEN <<>>
    ELSE LET b == from_string(Head(strs))
             rest == CancelOf(Tail(strs), variant)
         IN IF b.some /\ b.val.variant = variant THEN <<b.val.id>> \o rest ELSE rest

\* variant: the detector is constructed already waiting for confirm
SequenceDetectorNew_armed(cfg) ==
    [waiting_for_confirm |-> TRUE,
     start_binding |-> unwrap_or(from_string(cfg.start_key), BindingKey(NamedKey("KeyE"))),
     confirm_binding |-> unwrap_or(from_string(cfg.confirm_key), BindingMouse(NamedButton("Right"))),
     cancel_keys |-> CancelOf(cfg.cancelable_keys, "Key"),
     cancel_buttons |-> CancelOf(cfg.cancelable_keys, "Mouse")]

\* variant: the two fallback bindings are exchanged
SequenceDetectorNew_swapped_defaults(cfg) ==
    [waiting_for_confirm |-> FALSE,
     start_binding |-> unwrap_or(from_string(cfg.start_key), BindingMouse(NamedButton("Right"))),
     confirm_binding |-> unwrap_or(from_string(cfg.confirm_key), BindingKey(NamedKey("KeyE"))),
     cancel_keys |-> CancelOf(cfg.cancelable_keys, "Key"),
     cancel_buttons |-> CancelOf(cfg.cancelable_keys, "Mouse")]

SequenceDetectorNew(cfg) ==
    [waiting_for_confirm |-> FALSE,
     start_binding |-> unwrap_or(from_string(cfg.start_key), BindingKey(NamedKey("KeyE"))),
     confirm_binding |-> unwrap_or(from_string(cfg.confirm_key), BindingMouse(NamedButton("Right"))),
     cancel_keys |-> CancelOf(cfg.cancelable_keys, "Key"),
     cancel_buttons |-> CancelOf(cfg.cancelable_keys, "Mouse")]

KeyPress(key) == [id |-> key, type |-> "KeyPress"]
MousePress(button) == [id |-> button, type |-> "MousePress"]

Result(self, ret) == [ret |-> ret, det |-> self]

\* variant: a key that is neither cancel nor confirm resets the detector
on_key_press_disarms(self, key) ==
    IF ~self.waiting_for_confirm
    THEN IF /\ self.start_binding.variant = "Key"
            /\ key_to_string(key) = key_to_string(self.start_binding.id)
         THEN Result([self EXCEPT !.waiting_for_confirm = TRUE], FALSE)
         ELSE Result(self, FALSE)
    ELSE IF /\ self.confirm_binding.variant = "Key"
            /\ key_to_string(key) = key_to_string(self.confirm_binding.id)
            /\ ~\E i \in 1..Len(self.cancel_keys) :
                    key_to_string(self.cancel_keys[i]) = key_to_string(key)
    THEN Result([self EXCEPT !.waiting_for_confirm = FALSE], TRUE)
    ELSE Result([self EXCEPT !.waiting_for_confirm = FALSE], FALSE)

\* variant: the cancel keys are not consulted
on_key_press_ignores_cancel(self, key) ==
    IF ~self.waiting_for_confirm
    THEN IF /\ self.start_binding.variant = "Key"
            /\ key_to_string(key) = key_to_string(self.start_binding.id)
         THEN Result([self EXCEPT !.waiting_for_confirm = TRUE], FALSE)
         ELSE Result(self, FALSE)
    ELSE IF /\ self.confirm_binding.variant = "Key"
            /\ key_to_string(key) = key_to_string(self.confirm_binding.id)
    THEN Result([self EXCEPT !.waiting_for_confirm = FALSE], TRUE)
    ELSE Result(self, FALSE)

\* variant: the cancel and confirm tests are not an `else` of the start test, so
\* the press that arms the detector is tested as a confirm as well
on_key_press_falls_through(self, key) ==
    LET started ==
            IF /\ ~self.waiting_for_confirm
               /\ self.start_binding.variant = "Key"
               /\ key_to_string(key) = key_to_string(self.start_binding.id)
            THEN [self EXCEPT !.waiting_for_confirm = TRUE]
            ELSE self
    IN
    IF ~started.waiting_for_confirm
    THEN Result(started, FALSE)
    ELSE IF \E i \in 1..Len(self.cancel_keys) :
                key_to_string(self.cancel_keys[i]) = key_to_string(key)
    THEN Result([self EXCEPT !.waiting_for_confirm = FALSE], FALSE)
    ELSE IF /\ self.confirm_binding.variant = "Key"
            /\ key_to_string(key) = key_to_string(self.confirm_binding.id)
    THEN Result([self EXCEPT !.waiting_for_confirm = FALSE], TRUE)
    ELSE Result(started, FALSE)

\* variant: the start test comes first in every state, so a start key that is
\* also a cancel key never disarms
on_key_press_start_first(self, key) ==
    IF /\ self.start_binding.variant = "Key"
       /\ key_to_string(key) = key_to_string(self.start_binding.id)
    THEN Result([self EXCEPT !.waiting_for_confirm = TRUE], FALSE)
    ELSE IF ~self.waiting_for_confirm
    THEN Result(self, FALSE)
    ELSE IF \E i \in 1..Len(self.cancel_keys) :
                key_to_string(self.cancel_keys[i]) = key_to_string(key)
    THEN Result([self EXCEPT !.waiting_for_confirm = FALSE], FALSE)
    ELSE IF /\ self.confirm_binding.variant = "Key"
            /\ key_to_string(key) = key_to_string(self.confirm_binding.id)
    THEN Result([self EXCEPT !.waiting_for_confirm = FALSE], TRUE)
    ELSE Result(self, FALSE)

\* the InputEvent::KeyPress arm of on_input
on_key_press(self, key) ==
    IF ~self.waiting_for_confirm
    THEN IF /\ self.start_binding.variant = "Key"
            /\ key_to_string(key) = key_to_string(self.start_binding.id)
         THEN Result([self EXCEPT !.waiting_for_confirm = TRUE], FALSE)
         ELSE Result(self, FALSE)
    ELSE IF \E i \in 1..Len(self.cancel_keys) :
                key_to_string(self.cancel_keys[i]) = key_to_string(key)
    THEN Result([self EXCEPT !.waiting_for_confirm = FALSE], FALSE)
    ELSE IF /\ self.confirm_binding.variant = "Key"
            /\ key_to_string(key) = key_to_string(self.confirm_binding.id)
    THEN Result([self EXCEPT !.waiting_for_confirm = FALSE], TRUE)
    ELSE Result(self, FALSE)

\* variant: a confirming button emits without leaving AwaitingConfirm
on_mouse_press_stays_armed(self, button) ==
    IF ~self.waiting_for_confirm
    THEN IF /\ self.start_binding.variant = "Mouse"
            /\ button_to_string(button) = button_to_string(self.start_binding.id)
         THEN Result([self EXCEPT !.waiting_for_confirm = TRUE], FALSE)
         ELSE Result(self, FALSE)
    ELSE IF \E i \in 1..Len(self.cancel_buttons) :
                button_to_string(self.cancel_buttons[i]) = button_to_string(button)
    THEN Result([self EXCEPT !.waiting_for_confirm = FALSE], FALSE)
    ELSE IF /\ self.confirm_binding.variant = "Mouse"
            /\ button_to_string(button) = button_to_string(self.confirm_binding.id)
    THEN Result(self, TRUE)
    ELSE Result(self, FALSE)

\* variant: confirm is checked before cancel
on_mouse_press_confirm_first(self, button) ==
    IF ~self.waiting_for_confirm
    THEN IF /\ self.start_binding.variant = "Mouse"
            /\ button_to_string(button) = button_to_string(self.start_binding.id)
         THEN Result([self EXCEPT !.waiting_for_confirm = TRUE], FALSE)
         ELSE Result(self, FALSE)
    ELSE IF /\ self.confirm_binding.variant = "Mouse"
            /\ button_to_string(button) = button_to_string(self.confirm_binding.id)
    THEN Result([self EXCEPT !.waiting_for_confirm = FALSE], TRUE)
    ELSE IF \E i \in 1..Len(self.cancel_buttons) :
                button_to_string(self.cancel_buttons[i]) = button_to_string(button)
    THEN Result([self EXCEPT !.waiting_for_confirm = FALSE], FALSE)
    ELSE Result(self, FALSE)

\* variant: the confirm button emits whether or not the detector is waiting
on_mouse_press_idle_confirm(self, button) ==
    IF /\ self.confirm_binding.variant = "Mouse"
       /\ button_to_string(button) = button_to_string(self.confirm_binding.id)
       /\ ~\E i \in 1..Len(self.cancel_buttons) :
               button_to_string(self.cancel_buttons[i]) = button_to_string(button)
    THEN Result([self EXCEPT !.waiting_for_confirm = FALSE], TRUE)
    ELSE IF ~self.waiting_for_confirm
    THEN IF /\ self.start_binding.variant = "Mouse"
            /\ button_to_string(button) = button_to_string(self.start_binding.id)
         THEN Result([self EXCEPT !.waiting_for_confirm = TRUE], FALSE)
         ELSE Result(self, FALSE)
    ELSE IF \E i \in 1..Len(self.cancel_buttons) :
                button_to_string(self.cancel_buttons[i]) = button_to_string(button)
    THEN Result([self EXCEPT !.waiting_for_confirm = FALSE], FALSE)
    ELSE Result(self, FALSE)

\* variant: the variant of the start and confirm bindings is not looked at, only
\* the text of the key or button they name
name_of(binding) ==
    IF binding.variant = "Key" THEN key_to_string(binding.id)
    ELSE button_to_string(binding.id)

on_mouse_press_any_variant(self, button) ==
    IF ~self.waiting_for_confirm
    THEN IF button_to_string(button) = name_of(self.start_binding)
         THEN Result([self EXCEPT !.waiting_for_confirm = TRUE], FALSE)
         ELSE Result(self, FALSE)
    ELSE IF \E i \in 1..Len(self.cancel_buttons) :
                button_to_string(self.cancel_buttons[i]) = button_to_string(button)
    THEN Result([self EXCEPT !.waiting_for_confirm = FALSE], FALSE)
    ELSE IF button_to_string(button) = name_of(self.confirm_binding)
    THEN Result([self EXCEPT !.waiting_for_confirm = FALSE], TRUE)
    ELSE Result(self, FALSE)

\* the InputEvent::MousePress arm of on_input
on_mouse_press(self, button) ==
    IF ~self.waiting_for_confirm
    THEN IF /\ self.start_binding.variant = "Mouse"
            /\ button_to_string(button) = button_to_string(self.start_binding.id)
         THEN Result([self EXCEPT !.waiting_for_confirm = TRUE], FALSE)
         ELSE Result(self, FALSE)
    ELSE IF \E i \in 1..Len(self.cancel_buttons) :
                button_to_string(self.cancel_buttons[i]) = button_to_string(button)
    THEN Result([self EXCEPT !.waiting_for_confirm = FALSE], FALSE)
    ELSE IF /\ self.confirm_binding.variant = "Mouse"
            /\ button_to_string(button) = button_to_string(self.confirm_binding.id)
    THEN Result([self EXCEPT !.waiting_for_confirm = FALSE], TRUE)
    ELSE Result(self, FALSE)

on_input(self, input) ==
    IF input.type = "KeyPress"
    THEN on_key_press(self, input.id)
    ELSE on_mouse_press(self, input.id)

(***************************************************************************)
(* Timer.  The id field is history: the sequence number of the command     *)
(* that created the timer, so that creation order can be told apart from   *)
(* position.                                                               *)
(***************************************************************************)
\* variant: the end instant is counted from the start of the session
TimerNew_since_start(duration_ms, t, id) == [id |-> id, end_time |-> duration_ms * TicksPerMilli]

TimerNew(duration_ms, t, id) == [id |-> id, end_time |-> t + duration_ms * TicksPerMilli]

remaining_ms(timer, t) ==
    IF t >= timer.end_time THEN 0 ELSE (timer.end_time - t) \div TicksPerMilli

\* variant: `< 0` in place of `<= 0`
is_finished_below_zero(timer, t) == remaining_ms(timer, t) < 0

is_finished(timer, t) == remaining_ms(timer, t) <= 0

(***************************************************************************)
(* Vec operations used by TimerState::update                               *)
(***************************************************************************)
\* variant: the element at index 0 is overwritten instead of shifted
VecInsert0_replaces(v, x) == IF v = <<>> THEN <<x>> ELSE <<x>> \o Tail(v)

VecInsert0(v, x) == <<x>> \o v
\* variant: pushing a timer restarts the ones already in the pool
VecPush_restarts(v, x) ==
    Append([i \in 1..Len(v) |-> [v[i] EXCEPT !.end_time = x.end_time]], x)

VecPush(v, x) == Append(v, x)
VecPop(v) == IF v = <<>> THEN v ELSE SubSeq(v, 1, Len(v) - 1)
VecRemoveAt(v, i) == SubSeq(v, 1, i - 1) \o SubSeq(v, i + 1, Len(v))

\* variant: add_new_on_left is not looked at below capacity
apply_start_appends(v, cfg, t, id) ==
    LET duration_ms == cfg.timer_start_ms IN
    IF Len(v) < cfg.max_timers
    THEN VecPush(v, TimerNew(duration_ms, t, id))
    ELSE IF cfg.overwrite_oldest
    THEN IF cfg.add_new_on_left
         THEN VecInsert0(VecPop(v), TimerNew(duration_ms, t, id))
         ELSE VecPush(VecRemoveAt(v, 1), TimerNew(duration_ms, t, id))
    ELSE v

\* variant: the capacity test is off by one
apply_start_off_by_one(v, cfg, t, id) ==
    LET duration_ms == cfg.timer_start_ms IN
    IF Len(v) <= cfg.max_timers
    THEN IF cfg.add_new_on_left
         THEN VecInsert0(v, TimerNew(duration_ms, t, id))
         ELSE VecPush(v, TimerNew(duration_ms, t, id))
    ELSE IF cfg.overwrite_oldest
    THEN IF cfg.add_new_on_left
         THEN VecInsert0(VecPop(v), TimerNew(duration_ms, t, id))
         ELSE VecPush(VecRemoveAt(v, 1), TimerNew(duration_ms, t, id))
    ELSE v

\* variant: a full pool evicts whatever overwrite_oldest says
apply_start_always_evicts(v, cfg, t, id) ==
    LET duration_ms == cfg.timer_start_ms IN
    IF Len(v) < cfg.max_timers
    THEN IF cfg.add_new_on_left
         THEN VecInsert0(v, TimerNew(duration_ms, t, id))
         ELSE VecPush(v, TimerNew(duration_ms, t, id))
    ELSE IF cfg.add_new_on_left
         THEN VecInsert0(VecPop(v), TimerNew(duration_ms, t, id))
         ELSE VecPush(VecRemoveAt(v, 1), TimerNew(duration_ms, t, id))

\* variant: the eviction removes the timer at the side the new one is inserted at
apply_start_evicts_newest(v, cfg, t, id) ==
    LET duration_ms == cfg.timer_start_ms IN
    IF Len(v) < cfg.max_timers
    THEN IF cfg.add_new_on_left
         THEN VecInsert0(v, TimerNew(duration_ms, t, id))
         ELSE VecPush(v, TimerNew(duration_ms, t, id))
    ELSE IF cfg.overwrite_oldest
    THEN IF cfg.add_new_on_left
         THEN VecInsert0(VecRemoveAt(v, 1), TimerNew(duration_ms, t, id))
         ELSE VecPush(VecPop(v), TimerNew(duration_ms, t, id))
    ELSE v

\* variant: a command that finds room creates two timers
apply_start_twice(v, cfg, t, id) ==
    LET duration_ms == cfg.timer_start_ms IN
    IF Len(v) < cfg.max_timers
    THEN IF cfg.add_new_on_left
         THEN VecInsert0(VecInsert0(v, TimerNew(duration_ms, t, id)),
                         TimerNew(duration_ms, t, id))
         ELSE VecPush(VecPush(v, TimerNew(duration_ms, t, id)),
                      TimerNew(duration_ms, t, id))
    ELSE IF cfg.overwrite_oldest
    THEN IF cfg.add_new_on_left
         THEN VecInsert0(VecPop(v), TimerNew(duration_ms, t, id))
         ELSE VecPush(VecRemoveAt(v, 1), TimerNew(duration_ms, t, id))
    ELSE v

\* the Command::StartTimer arm of the receive loop of TimerState::update,
\* applied to the pool v at clock reading t for the command numbered id
apply_start(v, cfg, t, id) ==
    LET duration_ms == cfg.timer_start_ms IN
    IF Len(v) < cfg.max_timers
    THEN IF cfg.add_new_on_left
         THEN VecInsert0(v, TimerNew(duration_ms, t, id))
         ELSE VecPush(v, TimerNew(duration_ms, t, id))
    ELSE IF cfg.overwrite_oldest
    THEN IF cfg.add_new_on_left
         THEN VecInsert0(VecPop(v), TimerNew(duration_ms, t, id))
         ELSE VecPush(VecRemoveAt(v, 1), TimerNew(duration_ms, t, id))
    ELSE v

\* variant: the number is the position plus one in both layouts
smoke_number_position(v, cfg, i) == i + 1

\* variant: the two layouts are exchanged
smoke_number_exchanged(v, cfg, i) ==
    IF cfg.add_new_on_left THEN i + 1 ELSE Len(v) - i

\* the number painted under the timer at 0-based position i

smoke_number(v, cfg, i) == IF cfg.add_new_on_left THEN Len(v) - i ELSE i + 1

(***************************************************************************)
(* Initial states: a Config as the configuration screen hands it over      *)
(* (binding strings written by InputBinding's Display), and a TimerState   *)
(* as TimerState::new builds it.                                           *)
(***************************************************************************)
\* start and confirm binding: the default pair, one key for both, two keys, and
\* a button followed by a key
StoredPairs ==
    {<<BindingKey(NamedKey("KeyE")), BindingMouse(NamedButton("Right"))>>,
     <<BindingKey(NamedKey("Escape")), BindingKey(NamedKey("Escape"))>>,
     <<BindingKey(NamedKey("Escape")), BindingKey(NamedKey("KeyE"))>>,
     <<BindingMouse(NamedButton("Right")), BindingKey(NamedKey("KeyE"))>>}

CancelLists ==
    {<<>>,
     <<to_string(BindingKey(NamedKey("Escape")))>>,
     <<to_string(BindingKey(NamedKey("KeyE"))), to_string(BindingKey(NamedKey("Escape")))>>,
     <<to_string(BindingKey(NamedKey("Escape"))), to_string(BindingMouse(NamedButton("Right")))>>}

\* Config::default, restricted to the fields the core reads and to the modelled keys
DefaultConfig ==
    [start_key |-> Str("Key:", "KeyE"),
     confirm_key |-> Str("Mouse:", "Right"),
     cancelable_keys |-> <<Str("Key:", "KeyE"), Str("Key:", "Escape")>>,
     timer_start_ms |-> 1,
     max_timers |-> 1,
     overwrite_oldest |-> FALSE,
     add_new_on_left |-> TRUE]

\* variant: a configuration file with max_timers = 0 is among the configurations
Configs_with_zero_capacity ==
    {[DefaultConfig EXCEPT !.max_timers = m, !.add_new_on_left = a, !.overwrite_oldest = o] :
        m \in 0..MaxCap, a \in BOOLEAN, o \in BOOLEAN}

\* the bindings vary and the pool policy is the default one, or the other way round
Configs ==
    {[DefaultConfig EXCEPT !.start_key = to_string(p[1]), !.confirm_key = to_string(p[2]),
                           !.cancelable_keys = l] :
        p \in StoredPairs, l \in CancelLists}
    \cup
    {[DefaultConfig EXCEPT !.max_timers = m, !.add_new_on_left = a, !.overwrite_oldest = o] :
        m \in 1..MaxCap, a \in BOOLEAN, o \in BOOLEAN}

\* TimerState::new, with the detector its listener thread starts with
TimerStateNew(cfg, det) ==
    /\ config = cfg
    /\ detector = det
    /\ chan = <<>>
    /\ timers = <<>>
    /\ pc = "recv"
    /\ idx = 0
    /\ shown = <<>>
    /\ sent = 0
    /\ hist = <<>>
    /\ armed = FALSE
    /\ received = <<>>
    /\ rx_alive = TRUE
    /\ listening = TRUE

Init ==
    /\ now = 0
    /\ arms = -1
    /\ \E cfg \in Configs : TimerStateNew(cfg, SequenceDetectorNew(cfg))

(***************************************************************************)
(* The listener thread: the closure passed to rdev::listen                 *)
(***************************************************************************)
\* an input matches a binding when both are of the same variant and name the
\* same key or button
Matches(binding, input) ==
    /\ binding.variant = (IF input.type = "KeyPress" THEN "Key" ELSE "Mouse")
    /\ binding.id = input.id

CancelBindings(self) ==
    {BindingKey(self.cancel_keys[i]) : i \in 1..Len(self.cancel_keys)}
    \cup {BindingMouse(self.cancel_buttons[i]) : i \in 1..Len(self.cancel_buttons)}

MatchesCancel(self, input) == \E c \in CancelBindings(self) : Matches(c, input)

\* history: whether, after `input` was handled with result r, there is an earlier
\* start-matching input that was received while Idle and has been followed by
\* no cancel-matching input and no emitted command
Armed(input, r) ==
    IF Matches(detector.start_binding, input) /\ ~detector.waiting_for_confirm THEN TRUE
    ELSE IF MatchesCancel(detector, input) \/ r.ret THEN FALSE
    ELSE armed

Remember(h, input, r) ==
    LET e == [armed |-> armed, ret |-> r.ret,
              input |-> input, waiting |-> detector.waiting_for_confirm,
              alive |-> rx_alive]
        all == Append(h, e)
    IN IF Len(all) > 2 THEN Tail(all) ELSE all

\* variant: a channel that holds one command and rejects a send while one is pending
send_drops_when_pending(alive, ch, msg) ==
    [chan |-> IF alive /\ ch = <<>> THEN Append(ch, msg) ELSE ch, ok |-> alive /\ ch = <<>>]

\* Sender::send on the unbounded channel: the message is queued behind the pending
\* ones whatever their number, and the call fails only when the Receiver is gone
send(alive, ch, msg) ==
    [chan |-> IF alive THEN Append(ch, msg) ELSE ch, ok |-> alive]

\* variant: `tx.send(..).unwrap()`, the callback panics on Err
let_underscore_unwraps(res) == res.ok

\* `let _ = tx.send(..)`: the Result is dropped and the callback returns normally
let_underscore(res) == TRUE

\* history: the count of Idle -> AwaitingConfirm transitions after a call of
\* on_input with result r
Arms(r) ==
    IF arms >= 0 /\ ~detector.waiting_for_confirm /\ r.det.waiting_for_confirm
    THEN arms + 1
    ELSE arms

\* one call of the closure with a KeyPress or ButtonPress event
Handle(input) ==
    LET r == on_input(detector, input)
        res == send(rx_alive, chan, [cmd |-> "StartTimer", seq |-> sent + 1])
    IN
    /\ listening
    /\ sent < MaxSent
    /\ Arms(r) <= MaxArms
    /\ arms' = Arms(r)
    /\ detector' = r.det
    /\ hist' = Remember(hist, input, r)
    /\ armed' = Armed(input, r)
    /\ IF r.ret
       THEN /\ chan' = res.chan
            /\ sent' = sent + 1
            /\ listening' = let_underscore(res)
       ELSE UNCHANGED <<chan, sent, listening>>
    /\ UNCHANGED <<config, timers, now, pc, idx, shown, received, rx_alive>>

ListenKeyPress == \E key \in PressedKeys : Handle(KeyPress(key))

ListenButtonPress == \E button \in PressedButtons : Handle(MousePress(button))

\* the EventType values the closure has no arm for; the position of a move and
\* the deltas of a wheel event are left out
KeyRelease(key) == [id |-> key, type |-> "KeyRelease"]
ButtonRelease(button) == [id |-> button, type |-> "ButtonRelease"]
MouseMove == [id |-> KeyUnknown(0), type |-> "MouseMove"]
Wheel == [id |-> KeyUnknown(0), type |-> "Wheel"]

\* the release of the key or button of a binding
Release(binding) ==
    IF binding.variant = "Key" THEN KeyRelease(binding.id) ELSE ButtonRelease(binding.id)

\* the events of other types delivered to a listener whose detector is self:
\* the release of its start key or button, a mouse move, a wheel event
OtherEvents(self) == {Release(self.start_binding), MouseMove, Wheel}

\* variant: releasing the start key disarms the detector
other_event_release_disarms(self, event) ==
    IF /\ event.type = "KeyRelease"
       /\ self.start_binding.variant = "Key"
       /\ key_to_string(event.id) = key_to_string(self.start_binding.id)
    THEN [self EXCEPT !.waiting_for_confirm = FALSE]
    ELSE self

\* the `_ => {}` arm of the closure: the detector it leaves
other_event(self, event) == self

\* one call of the closure with an event of another type: on_input is not
\* called and nothing is sent
Discard(event) ==
    /\ listening
    /\ detector' = other_event(detector, event)
    /\ UNCHANGED <<config, chan, timers, now, pc, idx, shown, sent, hist, armed, arms,
                   received, rx_alive, listening>>

\* every other EventType (releases, moves, wheel) falls in the `_ => {}` arm
ListenOther == \E event \in OtherEvents(detector) : Discard(event)

(***************************************************************************)
(* The tick context: TimerState::update, one step per loop iteration       *)
(***************************************************************************)
\* try_recv returned Ok(command): apply it
RecvCommand ==
    /\ pc = "recv"
    /\ chan # <<>>
    /\ chan' = Tail(chan)
    /\ received' = Append(received, Head(chan).seq)
    /\ timers' = apply_start(timers, config, now, Head(chan).seq)
    /\ UNCHANGED <<config, detector, now, pc, idx, shown, sent, hist, armed, arms,
                 rx_alive, listening>>

\* variant: `if let` in place of `while let`, the loop is left although a command
\* is pending
RecvEmpty_leaves_pending ==
    /\ pc = "recv"
    /\ pc' = "retain"
    /\ idx' = 0
    /\ UNCHANGED <<config, detector, chan, timers, now, shown, sent, hist, armed, arms,
                   received, rx_alive, listening>>

\* try_recv returned Err(Empty): leave the loop and start retain
RecvEmpty ==
    /\ pc = "recv"
    /\ chan = <<>>
    /\ pc' = "retain"
    /\ idx' = 0
    /\ UNCHANGED <<config, detector, chan, timers, now, shown, sent, hist, armed, arms,
                 received, rx_alive, listening>>

\* variant: retain's predicate keeps every timer
RetainStep_keeps_all ==
    /\ pc = "retain"
    /\ idx < Len(timers)
    /\ timers' = timers
    /\ idx' = idx + 1
    /\ UNCHANGED <<config, detector, chan, now, pc, shown, sent, hist, armed, arms,
                   received, rx_alive, listening>>

\* one call of retain's predicate, on the element at 0-based position idx
RetainStep ==
    /\ pc = "retain"
    /\ idx < Len(timers)
    /\ IF is_finished(timers[idx + 1], now)
       THEN /\ timers' = VecRemoveAt(timers, idx + 1)
            /\ idx' = idx
       ELSE /\ timers' = timers
            /\ idx' = idx + 1
    /\ UNCHANGED <<config, detector, chan, now, pc, shown, sent, hist, armed, arms,
                 received, rx_alive, listening>>

\* variant: the tick context resets the detector when it has pruned
RetainDone_resets_detector ==
    /\ pc = "retain"
    /\ idx >= Len(timers)
    /\ pc' = "render"
    /\ idx' = 0
    /\ shown' = <<>>
    /\ detector' = [detector EXCEPT !.waiting_for_confirm = FALSE]
    /\ UNCHANGED <<config, chan, timers, now, sent, hist, armed, arms,
                   received, rx_alive, listening>>

RetainDone ==
    /\ pc = "retain"
    /\ idx >= Len(timers)
    /\ pc' = "render"
    /\ idx' = 0
    /\ shown' = <<>>
    /\ UNCHANGED <<config, detector, chan, timers, now, sent, hist, armed, arms,
                 received, rx_alive, listening>>

\* one iteration of the render loop over self.timers.iter().enumerate()
RenderStep ==
    /\ pc = "render"
    /\ idx < Len(timers)
    /\ shown' = Append(shown, [id |-> timers[idx + 1].id,
                               smoke_number |-> smoke_number(timers, config, idx),
                               remaining |-> remaining_ms(timers[idx + 1], now)])
    /\ idx' = idx + 1
    /\ UNCHANGED <<config, detector, chan, timers, now, pc, sent, hist, armed, arms,
                 received, rx_alive, listening>>

\* the frame is complete; request_repaint schedules the next tick
RenderDone ==
    /\ pc = "render"
    /\ idx >= Len(timers)
    /\ pc' = "recv"
    /\ idx' = 0
    /\ shown' = <<>>
    /\ UNCHANGED <<config, detector, chan, timers, now, sent, hist, armed, arms,
                 received, rx_alive, listening>>

\* variant: a wall clock, which may be set back
ClockAdvance_set_back ==
    /\ rx_alive
    /\ \E t \in 0..MaxTime : t # now /\ now' = t
    /\ UNCHANGED <<config, detector, chan, timers, pc, idx, shown, sent, hist, armed, arms,
                   received, rx_alive, listening>>

\* the monotonic clock moves on (Instant::now is read by the tick context only:
\* no reading is taken once it is gone)
ClockAdvance ==
    /\ rx_alive
    /\ now < MaxTime
    /\ now' = now + 1
    /\ UNCHANGED <<config, detector, chan, timers, pc, idx, shown, sent, hist, armed, arms,
                 received, rx_alive, listening>>

Next ==
    \/ ListenKeyPress
    \/ ListenButtonPress
    \/ ListenOther
    \/ RecvCommand
    \/ RecvEmpty
    \/ RetainStep
    \/ RetainDone
    \/ RenderStep
    \/ RenderDone
    \/ ClockAdvance

Spec == Init /\ [][Next]_vars

(***************************************************************************)
(* The session together with its end: the listener thread outlives the     *)
(* TimerState.  The pool policy is the default one, the bindings vary.     *)
(***************************************************************************)
\* the window is closed between two ticks: run_native returns and MainApp, with
\* its TimerState, its timers and the Receiver, is dropped; the commands still
\* queued are dropped with the channel
AppExit ==
    /\ pc = "recv"
    /\ pc' = "exit"
    /\ rx_alive' = FALSE
    /\ chan' = <<>>
    /\ timers' = <<>>
    /\ UNCHANGED <<config, detector, now, idx, shown, sent, hist, armed, arms, received, listening>>

InitWithExit ==
    /\ now = 0
    /\ arms = -1
    /\ \E cfg \in Configs :
        /\ cfg.max_timers = DefaultConfig.max_timers
        /\ cfg.add_new_on_left = DefaultConfig.add_new_on_left
        /\ cfg.overwrite_oldest = DefaultConfig.overwrite_oldest
        /\ TimerStateNew(cfg, SequenceDetectorNew(cfg))

NextWithExit == Next \/ AppExit

SpecWithExit == InitWithExit /\ [][NextWithExit]_vars

(***************************************************************************)
(* on_input as a function of every SequenceDetector value: the bindings    *)
(* range over all InputBinding values of the modelled keys and buttons,    *)
(* Unknown(code) included, whether or not a stored configuration can       *)
(* produce them.                                                           *)
(***************************************************************************)
AnyBindings ==
    {BindingKey(k) : k \in PressedKeys} \cup {BindingMouse(b) : b \in PressedButtons}

Detectors ==
    [waiting_for_confirm : {FALSE},
     start_binding : AnyBindings,
     confirm_binding : {BindingKey(KeyUnknown(1)), BindingMouse(ButtonUnknown(1))},
     cancel_keys : {<<>>, <<KeyUnknown(1)>>},
     cancel_buttons : {<<>>, <<NamedButton("Right")>>}]

InitOnInput ==
    /\ now = 0
    /\ arms = -1
    /\ \E d \in Detectors : TimerStateNew(DefaultConfig, d)

SpecOnInput == InitOnInput /\ [][Next]_vars

(***************************************************************************)
(* SequenceDetector::new and InputBinding::from_string as functions of the *)
(* strings of a configuration file: what the configuration screen stores   *)
(* for every key and button it offers, and legacy or damaged strings.  The *)
(* listener thread then runs the detector built from them.                 *)
(***************************************************************************)
\* the bindings the configuration screen offers
Storable ==
    {BindingKey(get_all_keys[i]) : i \in 1..Len(get_all_keys)}
    \cup {BindingMouse(get_all_buttons[i]) : i \in 1..Len(get_all_buttons)}

\* the strings the configuration screen writes
StoredStrings == {to_string(b) : b \in Storable}

\* strings only a hand-edited or older file holds
OtherStrings ==
    {Str("", "KeyE"), Str("", "RightMouse"), Str("", "Right"), Str("", "Bogus"),
     Str("", "Unknown(1)"), Str("", ""),
     Str("Key:", "RightMouse"), Str("Key:", "Right"), Str("Key:", "keye"),
     Str("Key:", "Unknown(1)"), Str("Key:", "Function"), Str("Key:", ""),
     Str("Mouse:", "KeyE"), Str("Mouse:", "RightMouse"), Str("Mouse:", "Unknown(1)"),
     Str("Mouse:", "right")}

FileStrings == StoredStrings \cup OtherStrings

\* one field of the default configuration is replaced, or all three are
FileConfigs ==
    {[DefaultConfig EXCEPT !.start_key = s] : s \in FileStrings}
    \cup {[DefaultConfig EXCEPT !.confirm_key = s] : s \in FileStrings}
    \cup {[DefaultConfig EXCEPT !.cancelable_keys = <<s>>] : s \in FileStrings}
    \cup {[DefaultConfig EXCEPT !.start_key = s, !.confirm_key = s,
                                !.cancelable_keys = <<Str("Key:", "Escape"), s,
                                                      Str("Mouse:", "Left")>>] :
             s \in OtherStrings}

InitFromFile ==
    /\ now = 0
    /\ arms = -1
    /\ \E cfg \in FileConfigs : TimerStateNew(cfg, SequenceDetectorNew(cfg))

NextListener ==
    \/ ListenKeyPress
    \/ ListenButtonPress
    \/ ListenOther

SpecFromFile == InitFromFile /\ [][NextListener]_vars

(***************************************************************************)
(* The listener thread alone with the gestures counted: every transition   *)
(* of the detector from Idle to AwaitingConfirm is added to arms.  The     *)
(* bindings vary, start and confirm on the same key included.              *)
(***************************************************************************)
InitGestures ==
    /\ now = 0
    /\ arms = 0
    /\ \E cfg \in Configs :
        /\ cfg.max_timers = DefaultConfig.max_timers
        /\ cfg.add_new_on_left = DefaultConfig.add_new_on_left
        /\ cfg.overwrite_oldest = DefaultConfig.overwrite_oldest
        /\ TimerStateNew(cfg, SequenceDetectorNew(cfg))

SpecGestures == InitGestures /\ [][NextListener]_vars

(***************************************************************************)
(* The running session under fair ticks and an advancing clock.  Every     *)
(* update ends with ctx.request_repaint(), so another tick always follows; *)
(* the clock goes on for as long as a timer of the pool has time left, so  *)
(* that every timer reaches its end, and rests when none has.  The         *)
(* bindings are the default ones, the pool policy varies.                  *)
(***************************************************************************)
ClockRuns ==
    /\ rx_alive
    /\ \E i \in 1..Len(timers) : ~is_finished(timers[i], now)
    /\ now' = now + 1
    /\ UNCHANGED <<config, detector, chan, timers, pc, idx, shown, sent, hist, armed, arms,
                   received, rx_alive, listening>>

\* one step of TimerState::update
Tick ==
    \/ RecvCommand
    \/ RecvEmpty
    \/ RetainStep
    \/ RetainDone
    \/ RenderStep
    \/ RenderDone

InitLive ==
    /\ now = 0
    /\ arms = -1
    /\ \E cfg \in Configs :
        /\ cfg.start_key = DefaultConfig.start_key
        /\ cfg.confirm_key = DefaultConfig.confirm_key
        /\ cfg.cancelable_keys = DefaultConfig.cancelable_keys
        /\ TimerStateNew(cfg, SequenceDetectorNew(cfg))

NextLive ==
    \/ ListenKeyPress
    \/ ListenButtonPress
    \/ ListenOther
    \/ RecvCommand
    \/ RecvEmpty
    \/ RetainStep
    \/ RetainDone
    \/ RenderStep
    \/ RenderDone
    \/ ClockRuns

SpecLive == InitLive /\ [][NextLive]_vars /\ WF_vars(Tick) /\ WF_vars(ClockRuns)

(***************************************************************************)
(* Properties                                                              *)
(***************************************************************************)
Idle == ~detector.waiting_for_confirm
AwaitingConfirm == detector.waiting_for_confirm

\* the most recent call of on_input: its input, the state it found
\* (e.waiting, e.armed) and what it returned (e.ret)
Last == hist[Len(hist)]

\* C1: in every reachable state the pool length is between 0 and the capacity
C1_LengthWithinCapacity ==
    /\ config.max_timers >= 1
    /\ Len(timers) >= 0
    /\ Len(timers) <= config.max_timers

\* a full pool of more than one timer into which a further command has been
\* applied by eviction (at clock reading 0 nothing has expired yet)
C1_Witness ==
    /\ config.max_timers > 1
    /\ Len(timers) = config.max_timers
    /\ now = 0
    /\ \E i \in 1..Len(timers) : timers[i].id > config.max_timers

\* the row of the transition table for a state and an input
TableRow(waiting, input) ==
    IF ~waiting
    THEN IF Matches(detector.start_binding, input)
         THEN [next |-> TRUE, emits |-> FALSE]
         ELSE [next |-> FALSE, emits |-> FALSE]
    ELSE IF MatchesCancel(detector, input)
    THEN [next |-> FALSE, emits |-> FALSE]
    ELSE IF Matches(detector.confirm_binding, input)
    THEN [next |-> FALSE, emits |-> TRUE]
    ELSE [next |-> TRUE, emits |-> FALSE]

\* C2: the detector starts Idle, and every call of on_input takes exactly the
\* transition of the table and returns true exactly where the table emits; the
\* bindings are those the detector was constructed with
C2_TransitionTable ==
    /\ hist = <<>> => Idle
    /\ hist # <<>> =>
        /\ detector.waiting_for_confirm = TableRow(Last.waiting, Last.input).next
        /\ Last.ret = TableRow(Last.waiting, Last.input).emits
    /\ Len(hist) = 2 =>
        /\ Last.waiting = TableRow(hist[1].waiting, hist[1].input).next
        /\ hist[1].ret = TableRow(hist[1].waiting, hist[1].input).emits
    /\ [detector EXCEPT !.waiting_for_confirm = FALSE] = SequenceDetectorNew(config)

\* an input matching confirm was handled while AwaitingConfirm and emitted
C2_Witness ==
    /\ hist # <<>>
    /\ Last.waiting
    /\ Last.ret
    /\ Matches(detector.confirm_binding, Last.input)
    /\ Idle

\* C3: on_input returns true on an input exactly when the input matches confirm,
\* matches no cancel binding, and a start gesture is pending; an input matching
\* neither cancel nor confirm leaves a pending gesture pending
C3_EmitsIffArmedConfirm ==
    /\ \A i \in 1..Len(hist) :
        hist[i].ret <=> /\ Matches(detector.confirm_binding, hist[i].input)
                        /\ ~MatchesCancel(detector, hist[i].input)
                        /\ hist[i].armed
    /\ ( /\ hist # <<>>
         /\ Last.armed
         /\ ~MatchesCancel(detector, Last.input)
         /\ ~Matches(detector.confirm_binding, Last.input) )
       => armed /\ AwaitingConfirm

\* start, then an input that is neither cancel nor confirm, then confirm: emitted
C3_Witness ==
    /\ Len(hist) = 2
    /\ hist[1].armed
    /\ ~MatchesCancel(detector, hist[1].input)
    /\ ~Matches(detector.confirm_binding, hist[1].input)
    /\ hist[2].armed
    /\ hist[2].ret

ConfirmIsCancel == detector.confirm_binding \in CancelBindings(detector)

\* the last two inputs: one matching start, received while Idle, then one
\* matching confirm
C4_StartThenConfirm ==
    /\ Len(hist) = 2
    /\ ~hist[1].waiting
    /\ Matches(detector.start_binding, hist[1].input)
    /\ Matches(detector.confirm_binding, hist[2].input)

C4_OneCommandThenIdle ==
    /\ ~hist[1].ret
    /\ hist[2].ret
    /\ Idle

\* C4 as stated: for every configuration, start then confirm emits exactly one
\* command, on the second input, and leaves the detector Idle
C4_BasicTrigger_AsStated == C4_StartThenConfirm => C4_OneCommandThenIdle

\* C4, amended: the same for every configuration whose confirm binding is not
\* listed among the cancel bindings
C4_BasicTrigger == C4_StartThenConfirm /\ ~ConfirmIsCancel => C4_OneCommandThenIdle

C4_Witness == C4_StartThenConfirm /\ ~ConfirmIsCancel /\ hist[2].ret /\ Idle

\* C5: start, then any cancel binding, then confirm emits no command: an input
\* matching start received while Idle arms without emitting; an input matching a
\* cancel binding received while a start is pending emits nothing and the
\* confirm-matching input after it finds the detector Idle and emits nothing
C5_CancelResets ==
    /\ \A i \in 1..Len(hist) :
        ~hist[i].waiting /\ Matches(detector.start_binding, hist[i].input)
            => /\ ~hist[i].ret
               /\ IF i < Len(hist) THEN hist[i + 1].armed /\ hist[i + 1].waiting
                                   ELSE armed /\ AwaitingConfirm
    /\ ( /\ Len(hist) = 2
         /\ hist[1].armed
         /\ hist[1].waiting
         /\ MatchesCancel(detector, hist[1].input)
         /\ Matches(detector.confirm_binding, hist[2].input) )
       => ~hist[1].ret /\ ~hist[2].waiting /\ ~hist[2].ret

\* a cancel key pressed while a start was pending, then confirm: nothing emitted
C5_Witness ==
    /\ Len(hist) = 2
    /\ hist[1].armed
    /\ hist[1].waiting
    /\ MatchesCancel(detector, hist[1].input)
    /\ Matches(detector.confirm_binding, hist[2].input)
    /\ ~Matches(detector.start_binding, hist[2].input)
    /\ ~hist[2].ret
    /\ Idle
    /\ sent = 0

\* C6: when the confirm binding is also a cancel binding, an input matching it
\* while AwaitingConfirm returns the detector to Idle without emitting, and no
\* command is ever produced
C6_CancelWinsTie ==
    ConfirmIsCancel =>
        /\ sent = 0
        /\ chan = <<>>
        /\ \A i \in 1..Len(hist) : ~hist[i].ret
        /\ hist # <<>> /\ Last.waiting /\ Matches(detector.confirm_binding, Last.input)
            => Idle

C6_Witness ==
    /\ ConfirmIsCancel
    /\ hist # <<>>
    /\ Last.waiting
    /\ Matches(detector.confirm_binding, Last.input)
    /\ Idle

\* C7: an input that does not match start, received while Idle, leaves the
\* detector Idle and emits nothing, whether or not it matches confirm or cancel
C7_IdempotentIdle ==
    \A i \in 1..Len(hist) :
        ~hist[i].waiting /\ ~Matches(detector.start_binding, hist[i].input)
            => /\ ~hist[i].ret
               /\ IF i < Len(hist) THEN ~hist[i + 1].waiting ELSE Idle

\* a confirm-matching and then a cancel-matching input, both received while Idle
C7_Witness ==
    /\ Len(hist) = 2
    /\ ~hist[1].waiting
    /\ ~hist[2].waiting
    /\ Matches(detector.confirm_binding, hist[1].input)
    /\ MatchesCancel(detector, hist[2].input)
    /\ \A i \in 1..2 : ~Matches(detector.start_binding, hist[i].input)
    /\ Idle
    /\ sent = 0

VariantOf(input) == IF input.type = "KeyPress" THEN "Key" ELSE "Mouse"

\* whether the detector was waiting after the i-th remembered call
WaitingAfter(i) == IF i < Len(hist) THEN hist[i + 1].waiting ELSE AwaitingConfirm

\* C8: an input never acts as the start, confirm or cancel binding of the other
\* variant, whatever the two identifiers are: it arms only a start binding of
\* its own variant, it emits only for a confirm binding of its own variant, and
\* it leaves AwaitingConfirm only by a cancel or confirm binding of its own variant
C8_CrossVariantIsolation ==
    \A i \in 1..Len(hist) :
        LET e == hist[i]
            v == VariantOf(e.input)
        IN /\ ~e.waiting /\ detector.start_binding.variant # v => ~WaitingAfter(i)
           /\ e.ret => detector.confirm_binding.variant = v
           /\ ( /\ e.waiting
                /\ detector.confirm_binding.variant # v
                /\ ~\E c \in CancelBindings(detector) : c.variant = v /\ c.id = e.input.id )
              => WaitingAfter(i) /\ ~e.ret

\* Button::Unknown(1) pressed while Idle with start bound to Key::Unknown(1):
\* the string forms coincide and the detector stays Idle
C8_Witness ==
    /\ Len(hist) = 2
    /\ detector.start_binding = BindingKey(KeyUnknown(1))
    /\ hist[2].input = MousePress(ButtonUnknown(1))
    /\ button_to_string(hist[2].input.id) = key_to_string(detector.start_binding.id)
    /\ ~hist[2].waiting
    /\ Idle

\* the step receives a command from the channel and applies it
Received == pc = "recv" /\ chan # <<>> /\ chan' = Tail(chan)

C9_Step ==
    Received /\ Len(timers) = config.max_timers /\ ~config.overwrite_oldest
        => /\ timers' = timers
           /\ \A i \in 1..Len(chan') : chan'[i].seq # Head(chan).seq
           /\ UNCHANGED <<config, detector, now, pc, idx, shown, sent, hist, armed, arms,
                         rx_alive, listening>>

\* C9: a command applied to a full pool with overwrite_oldest off leaves the pool
\* exactly as it was; the command is consumed and nothing else changes
C9_SilentDrop == [][C9_Step]_vars

\* more commands than the capacity have been applied before anything could
\* expire, and the pool holds exactly the first max_timers timers
C9_Witness ==
    /\ ~config.overwrite_oldest
    /\ config.max_timers > 1
    /\ now = 0
    /\ chan = <<>>
    /\ sent = config.max_timers + 1
    /\ Len(timers) = config.max_timers
    /\ \A i \in 1..Len(timers) : timers[i].id <= config.max_timers

C10_Step ==
    Received /\ Len(timers) = config.max_timers /\ config.overwrite_oldest
        => LET n == Len(timers)
               evicted == IF config.add_new_on_left THEN timers[n] ELSE timers[1]
               kept == IF config.add_new_on_left THEN SubSeq(timers, 1, n - 1)
                                                 ELSE SubSeq(timers, 2, n)
               new == [id |-> Head(chan).seq,
                       end_time |-> now + config.timer_start_ms * TicksPerMilli]
           IN /\ \A i \in 1..n : evicted.id <= timers[i].id
              /\ timers' = IF config.add_new_on_left THEN <<new>> \o kept
                                                     ELSE kept \o <<new>>
              /\ \A i \in 1..Len(timers') : timers'[i].id # evicted.id
              /\ Len(timers') = config.max_timers

\* C10: a command applied to a full pool with overwrite_oldest on evicts the
\* earliest-created timer, which sits at the last index when inserting on the
\* left and at index 0 otherwise, inserts the new timer at the configured side,
\* keeps every other timer in order, and leaves the length at the capacity
C10_OverwriteOldest == [][C10_Step]_vars

\* capacity 2, insert on left, overwrite: after three commands the pool holds
\* the third and the second timer, and the first is gone
C10_Witness ==
    /\ config.overwrite_oldest
    /\ config.add_new_on_left
    /\ config.max_timers = 2
    /\ now = 0
    /\ chan = <<>>
    /\ Len(timers) = 2
    /\ timers[1].id = 3
    /\ timers[2].id = 2

C11_Step ==
    Received /\ Len(timers) < config.max_timers
        => LET new == [id |-> Head(chan).seq,
                       end_time |-> now + config.timer_start_ms * TicksPerMilli]
           IN /\ timers' = IF config.add_new_on_left THEN <<new>> \o timers
                                                     ELSE timers \o <<new>>
              /\ Len(timers') = Len(timers) + 1

\* C11: a command applied below capacity adds exactly one timer, at index 0 when
\* inserting on the left and at the end otherwise; the timers already there keep
\* their order and end instants
C11_InsertBelowCapacity == [][C11_Step]_vars

\* a second timer was inserted on the left of a pool that held one
C11_Witness ==
    /\ config.add_new_on_left
    /\ Len(timers) = 2
    /\ timers[1].id = 2
    /\ timers[2].id = 1

\* C12: in every reachable state position follows creation order: creation
\* numbers decrease along the pool when inserting on the left and increase
\* otherwise
C12_OrderIsRecency ==
    \A i \in 1..Len(timers) : \A j \in 1..Len(timers) :
        i < j => IF config.add_new_on_left THEN timers[i].id > timers[j].id
                                           ELSE timers[i].id < timers[j].id

\* after a prune and a later insert on the right: the pool holds two timers,
\* the first-created one is gone, and the third-created one is last
C12_Witness ==
    /\ ~config.add_new_on_left
    /\ ~config.overwrite_oldest
    /\ Len(timers) = 2
    /\ timers[1].id = 2
    /\ timers[2].id = 3

\* C13 as stated: the remaining time of a timer with end instant E is never
\* negative, is 0 at every clock reading at or after E, and is greater than 0 at
\* every clock reading before E, readings less than a millisecond before E
\* included
C13_Expiry_AsStated ==
    \A i \in 1..Len(timers) :
        /\ remaining_ms(timers[i], now) >= 0
        /\ now >= timers[i].end_time => remaining_ms(timers[i], now) = 0
        /\ now < timers[i].end_time => remaining_ms(timers[i], now) > 0

\* C14 as stated: every timer the render loop paints is painted with a
\* remaining time greater than 0
C14_ShownPositive_AsStated ==
    \A p \in 1..Len(shown) : shown[p].remaining > 0

\* the render loop of the current tick has painted every timer of the pool
FrameComplete == pc = "render" /\ idx = Len(timers)

\* C15: the timer at 0-based position p of a pool of n timers is numbered n - p
\* when inserting on the left and p + 1 otherwise; the numbers of a complete
\* frame are exactly 1..n, each once, the earliest-created timer is numbered 1
\* and the newest n
C15_DisplayIndex ==
    /\ \A q \in 1..Len(shown) :
        shown[q].smoke_number = IF config.add_new_on_left THEN Len(timers) - (q - 1)
                                                          ELSE (q - 1) + 1
    /\ FrameComplete =>
        /\ Len(shown) = Len(timers)
        /\ {shown[q].smoke_number : q \in 1..Len(shown)} = 1..Len(timers)
        /\ \A q \in 1..Len(shown) : \A r \in 1..Len(shown) :
            /\ q # r => shown[q].smoke_number # shown[r].smoke_number
            /\ shown[q].id < shown[r].id => shown[q].smoke_number < shown[r].smoke_number
        /\ \A q \in 1..Len(shown) :
            /\ (\A r \in 1..Len(shown) : shown[q].id <= shown[r].id)
                => shown[q].smoke_number = 1
            /\ (\A r \in 1..Len(shown) : shown[q].id >= shown[r].id)
                => shown[q].smoke_number = Len(timers)

\* a complete frame of two timers in the insert-on-left layout
C15_Witness ==
    /\ FrameComplete
    /\ config.add_new_on_left
    /\ Len(shown) = 2
    /\ shown[1].smoke_number = 2
    /\ shown[2].smoke_number = 1

\* the sequence numbers of the pending commands, oldest first
Pending == [i \in 1..Len(chan) |-> chan[i].seq]

\* C16: while the Receiver is alive, the commands received so far followed by the
\* pending ones are exactly the commands sent, each once and in sending order
\* (none lost, duplicated or reordered), and a send returns Ok at once with the
\* command queued behind the pending ones, whatever their number
C16_ExactlyOnceInOrder ==
    rx_alive =>
        /\ received \o Pending = [i \in 1..sent |-> i]
        /\ LET msg == [cmd |-> "StartTimer", seq |-> sent + 1]
               res == send(rx_alive, chan, msg)
           IN res.ok /\ res.chan = chan \o <<msg>>

\* one command has been received while two later ones are pending
C16_Witness == rx_alive /\ received = <<1>> /\ Pending = <<2, 3>>

\* C17: once the Receiver is gone a send fails and the failure is ignored: the
\* listener thread keeps running its callback, the callback stays enabled, and
\* every call made without a Receiver returns and moves the detector exactly as
\* the transition table says for a live one
C17_FailedSendIgnored ==
    /\ listening
    /\ sent < MaxSent => \A button \in PressedButtons : ENABLED Handle(MousePress(button))
    /\ ~rx_alive => chan = <<>>
    /\ \A i \in 1..Len(hist) :
          ~hist[i].alive
              => /\ hist[i].ret = TableRow(hist[i].waiting, hist[i].input).emits
                 /\ WaitingAfter(i) = TableRow(hist[i].waiting, hist[i].input).next

\* a send has failed, and the next event has armed the detector again
C17_Witness ==
    /\ Len(hist) = 2
    /\ ~hist[1].alive
    /\ hist[1].ret
    /\ ~hist[2].waiting
    /\ AwaitingConfirm
    /\ listening

Parses(s) == from_string(s).some

\* the entries of a cancel list that parse, in the order of the list
ParsedEntries(strs) ==
    LET good == SelectSeq(strs, Parses)
    IN [i \in 1..Len(good) |-> from_string(good[i]).val]

IsKeyBinding(b) == b.variant = "Key"
IsMouseBinding(b) == b.variant = "Mouse"

\* the keys or buttons of a sequence of bindings
Ids(bindings) == [i \in 1..Len(bindings) |-> bindings[i].id]

\* C18: the detector built from a configuration has Key:KeyE as start binding when
\* the start string does not parse and Mouse:Right as confirm binding when the
\* confirm string does not parse (the parsed binding otherwise), and its cancel
\* bindings are the parsable entries of the cancel list, in order, the
\* unparsable ones skipped
C18_FallbackBindings ==
    /\ detector.start_binding =
           IF Parses(config.start_key) THEN from_string(config.start_key).val
           ELSE BindingKey(NamedKey("KeyE"))
    /\ detector.confirm_binding =
           IF Parses(config.confirm_key) THEN from_string(config.confirm_key).val
           ELSE BindingMouse(NamedButton("Right"))
    /\ detector.cancel_keys =
           Ids(SelectSeq(ParsedEntries(config.cancelable_keys), IsKeyBinding))
    /\ detector.cancel_buttons =
           Ids(SelectSeq(ParsedEntries(config.cancelable_keys), IsMouseBinding))

\* no binding string parses, the cancel list keeps its two good entries, and the
\* fallback gesture (KeyE, then the right button) has emitted a command
C18_Witness ==
    /\ ~Parses(config.start_key)
    /\ ~Parses(config.confirm_key)
    /\ Len(config.cancelable_keys) = 3
    /\ ~Parses(config.cancelable_keys[2])
    /\ detector.cancel_keys = <<NamedKey("Escape")>>
    /\ detector.cancel_buttons = <<NamedButton("Left")>>
    /\ Len(hist) = 2
    /\ hist[1].input = KeyPress(NamedKey("KeyE"))
    /\ hist[2].input = MousePress(NamedButton("Right"))
    /\ hist[2].ret

\* every named rdev::Key
NamedKeys == {NamedKey(t) : t \in DOMAIN KeyToString}

\* the keyboard key whose canonical name (the text key_to_string prints) is `name`
KeyNamed(name) ==
    IF \E k \in NamedKeys : key_to_string(k) = name
    THEN Some(BindingKey(CHOOSE k \in NamedKeys : key_to_string(k) = name))
    ELSE None

ButtonNamed(name) ==
    IF name \in {"Left", "Right", "Middle"} THEN Some(BindingMouse(NamedButton(name)))
    ELSE None

\* what the binding format says a string stands for
Denotes(s) ==
    IF s.prefix = "Key:" THEN KeyNamed(s.rest)
    ELSE IF s.prefix = "Mouse:" THEN ButtonNamed(s.rest)
    ELSE IF s.rest = "RightMouse" THEN Some(BindingMouse(NamedButton("Right")))
    ELSE KeyNamed(s.rest)

\* the binding strings of the configuration
ConfigStrings ==
    {config.start_key, config.confirm_key}
    \cup {config.cancelable_keys[i] : i \in 1..Len(config.cancelable_keys)}

\* C19: from_string maps "Key:<name>" to the key of that canonical name,
\* "Mouse:<Left|Right|Middle>" to that button, the unprefixed "RightMouse" to the
\* right button, any other unprefixed string to the key of that name, and yields
\* no binding for every other string; a prefixed string with an unknown name is
\* not tried again as a legacy name
C19_FromString ==
    /\ \A s \in ConfigStrings : from_string(s) = Denotes(s)
    /\ \A s \in ConfigStrings :
          s.prefix # "" /\ from_string(Str("", s.rest)).some
          /\ from_string(Str("", s.rest)) # Denotes(s)
              => from_string(s) = None

\* the legacy string "RightMouse" is the start binding, a prefixed string that
\* would parse as a legacy one is in the file too, and a press of the right
\* button has armed the detector
C19_Witness ==
    /\ config.start_key = Str("", "RightMouse")
    /\ detector.start_binding = BindingMouse(NamedButton("Right"))
    /\ hist # <<>>
    /\ Last.input = MousePress(NamedButton("Right"))
    /\ ~Last.waiting
    /\ AwaitingConfirm

\* C20: every binding the configuration screen can store parses back from its
\* stored string to the same binding, so the detector built from a stored
\* configuration has the stored start, confirm and cancel bindings
C20_RoundTrip ==
    \A b \in Storable :
        /\ config.start_key = to_string(b) => detector.start_binding = b
        /\ config.confirm_key = to_string(b) => detector.confirm_binding = b
        /\ config.cancelable_keys = <<to_string(b)>>
              => /\ CancelBindings(detector) = {b}
                 /\ Len(detector.cancel_keys) + Len(detector.cancel_buttons) = 1
        /\ to_string(b) \in ConfigStrings => from_string(to_string(b)) = Some(b)

\* a stored start binding other than the default one, used by the listener
C20_Witness ==
    /\ config.start_key = to_string(BindingKey(NamedKey("Escape")))
    /\ detector.start_binding = BindingKey(NamedKey("Escape"))
    /\ Len(hist) = 2
    /\ hist[1].input = KeyPress(NamedKey("Escape"))
    /\ hist[2].ret

\* the order of the phases of a tick, and what each phase may touch
C21_Step ==
    /\ received' # received
          => /\ pc = "recv" /\ pc' = "recv"
             /\ chan # <<>>
             /\ received' = Append(received, Head(chan).seq)
             /\ chan' = Tail(chan)
    /\ pc = "recv" /\ pc' # "recv"
          => chan = <<>> /\ pc' = "retain" /\ timers' = timers /\ chan' = chan
    /\ pc = "retain" /\ pc' # "retain" => pc' = "render"
    /\ pc = "render" /\ pc' # "render" => pc' = "recv"
    /\ pc # "recv" => received' = received /\ Len(chan') >= Len(chan)
    /\ pc = "recv" /\ timers' # timers => received' # received
    /\ shown' # shown /\ shown' # <<>> => pc = "render"

\* C21: a tick receives the pending commands one at a time, oldest first, and
\* leaves the receive loop for pruning and rendering only when it finds the
\* channel empty; on an empty channel the step to pruning is enabled at once
C21_DrainThenPrune ==
    /\ [](pc = "recv" /\ chan = <<>> => ENABLED RecvEmpty)
    /\ [][C21_Step]_vars

\* two commands have been received in the receive loop, which has then found the
\* channel empty and handed over to pruning
C21_Witness ==
    /\ pc = "retain" /\ idx = 0
    /\ now = 0
    /\ received = <<1, 2>>
    /\ chan = <<>>
    /\ Len(timers) = 2

C22_Step ==
    Received /\ ~config.overwrite_oldest /\ timers' = timers
        => /\ Len(timers) = config.max_timers
           /\ \A i \in 1..Len(timers) : remaining_ms(timers[i], now) > 0

\* C22 as stated: with overwrite_oldest = false a received command is dropped
\* only when the pool holds max_timers timers that all have remaining > 0
C22_DroppedOnlyWhenAllLive_AsStated == [][C22_Step]_vars

\* v without its element at 1-based position i, the others in their order
Without(v, i) == SubSeq(v, 1, i - 1) \o SubSeq(v, i + 1, Len(v))

C23_Step ==
    /\ pc = "retain" /\ pc' = "retain" /\ (timers' # timers \/ idx' # idx)
          => /\ idx < Len(timers)
             /\ IF remaining_ms(timers[idx + 1], now) = 0
                THEN timers' = Without(timers, idx + 1) /\ idx' = idx
                ELSE timers' = timers /\ idx' = idx + 1
    /\ pc = "retain" /\ pc' # "retain" => idx = Len(timers) /\ timers' = timers

TickState == <<timers, pc, idx, shown, received>>
ListenerState == <<detector, sent, hist, armed, arms, listening>>

C25_Step ==
    /\ TickState' # TickState => ListenerState' = ListenerState
    /\ ListenerState' # ListenerState => TickState' = TickState
    /\ chan' # chan => \/ (TickState' = TickState /\ Len(chan') = Len(chan) + 1)
                      \/ (ListenerState' = ListenerState /\ chan' = Tail(chan))
    /\ config' = config

\* C25: a step of the tick context leaves the detector and the listener's
\* history unchanged, a step of the listener leaves the pool and the tick's
\* position unchanged, only the channel is touched by both (appended to by one,
\* popped by the other); and in every interleaving the detector's state is the
\* transition table's result for its last input, whatever ticks ran in between
C25_OwnershipSplit ==
    /\ [](hist # <<>> => AwaitingConfirm = TableRow(Last.waiting, Last.input).next)
    /\ [][C25_Step]_vars

\* the detector is armed, and since its last input a tick has received a
\* command, pruned and painted a timer
C25_Witness ==
    /\ AwaitingConfirm
    /\ hist # <<>> /\ ~Last.waiting
    /\ sent = 1
    /\ received = <<1>>
    /\ pc = "render" /\ Len(shown) = 1

\* the timer of pool v created by command number n
CreatedBy(v, n) == v[CHOOSE i \in 1..Len(v) : v[i].id = n]

C26_Step ==
    Received /\ timers' # timers
        => /\ \E i \in 1..Len(timers') : timers'[i].id = Head(chan).seq
           /\ CreatedBy(timers', Head(chan).seq).end_time
                  = now + config.timer_start_ms * TicksPerMilli
           /\ remaining_ms(CreatedBy(timers', Head(chan).seq), now) = config.timer_start_ms

\* C26: a command carries nothing but its kind, and the timer it creates ends at
\* the clock reading of the tick step that applies it plus the configured
\* duration, so it starts with the full duration remaining
C26_EndFromApplyTime ==
    /\ [](\A i \in 1..Len(chan) : chan[i].cmd = "StartTimer")
    /\ [][C26_Step]_vars

\* a timer created at the last clock reading of the model, later than the
\* session's start, with the full duration remaining
C26_Witness ==
    /\ now = MaxTime
    /\ pc = "recv"
    /\ timers # <<>>
    /\ received # <<>>
    /\ \E i \in 1..Len(timers) : timers[i].id = received[Len(received)]
    /\ CreatedBy(timers, received[Len(received)]).end_time
           = MaxTime + config.timer_start_ms * TicksPerMilli
    /\ remaining_ms(CreatedBy(timers, received[Len(received)]), now) = config.timer_start_ms

\* the creation numbers of the timers of pool v
IdsIn(v) == {v[i].id : i \in 1..Len(v)}

\* the display number of the timer of pool v at 1-based position i
NumberAt(v, i) == smoke_number(v, config, i - 1)

C27_Step ==
    \A i \in 1..Len(timers) : \A j \in 1..Len(timers') :
        timers[i].id = timers'[j].id
            => NumberAt(timers', j) =
                   NumberAt(timers, i)
                   - Cardinality({n \in IdsIn(timers) \ IdsIn(timers') : n < timers[i].id})

\* C27: over every step, the display number of a timer that stays in the pool
\* goes down by one for each older timer that leaves (expired or evicted) and is
\* not changed by a newer timer that is added, in both layouts
C27_NumberTracksSlot == [][C27_Step]_vars

\* nothing has expired yet, timer 1 has been evicted for timer 3, and timer 2,
\* which held slot 2, is painted as 1 with the new timer as 2
C27_Witness ==
    /\ now = 0
    /\ config.overwrite_oldest
    /\ received = <<1, 2, 3>>
    /\ FrameComplete
    /\ Len(shown) = 2
    /\ \E p, q \in 1..2 :
          /\ shown[p].id = 2 /\ shown[p].smoke_number = 1
          /\ shown[q].id = 3 /\ shown[q].smoke_number = 2

C28_Step ==
    /\ \A i \in 1..Len(timers) : \A j \in 1..Len(timers') :
          timers[i].id = timers'[j].id => timers'[j].end_time = timers[i].end_time
    /\ \A j \in 1..Len(timers') :
          \/ \E i \in 1..Len(timers) : timers'[j] = timers[i]
          \/ Received /\ timers'[j].id = Head(chan).seq

\* C28: over every step (applying a command, pruning, rendering, listener and
\* clock steps) a timer that stays in the pool keeps its end instant, and every
\* timer of the new pool is either a timer of the old pool, unchanged, or the
\* one created by the command received in that step
C28_EndInstantFixed == [][C28_Step]_vars

\* two timers created at different clock readings are both in the pool, the
\* older one still with the end instant of its own creation
C28_Witness ==
    /\ pc = "recv"
    /\ received = <<1, 2>>
    /\ Len(timers) = 2
    /\ \E i, j \in 1..2 :
          /\ timers[i].id = 1 /\ timers[j].id = 2
          /\ timers[i].end_time < timers[j].end_time
          /\ timers[i].end_time = config.timer_start_ms * TicksPerMilli

\* the positions of pool w that hold a timer that is not in pool v
CreatedIn(v, w) == {j \in 1..Len(w) : \A i \in 1..Len(v) : w[j] # v[i]}

C29_Counts ==
    /\ IdsIn(timers) \subseteq {received[k] : k \in 1..Len(received)}
    /\ Len(received) + Len(chan) = sent
    /\ \A k \in 1..Len(chan) : chan[k].cmd = "StartTimer"

C29_Step ==
    /\ timers' # timers =>
          Cardinality(CreatedIn(timers, timers')) <= Len(received') - Len(received)
    /\ Len(received') - Len(received) \in {0, 1}
    /\ sent' # sent =>
          /\ sent' = sent + 1
          /\ hist' # hist
          /\ hist'[Len(hist')].ret
          /\ Len(chan') = Len(chan) + 1
    /\ hist' # hist => sent' = (IF hist'[Len(hist')].ret THEN sent + 1 ELSE sent)

\* C29: every step creates at most as many timers as it receives commands (at
\* most one), the timers of the pool carry numbers of received commands, the
\* commands received plus the commands in the channel are the commands sent,
\* and a command is sent in exactly the steps that are an input event on which
\* on_input returned true; so timers created <= received <= sent = emitting
\* events
C29_CreatedReceivedSent == []C29_Counts /\ [][C29_Step]_vars

\* three emitting events, two commands received, one still in the channel, and
\* fewer timers in the pool than commands received
C29_Witness ==
    /\ sent = 3
    /\ Len(received) = 2
    /\ Len(chan) = 1
    /\ Len(timers) = 1
    /\ hist # <<>>
    /\ Last.ret

C24_Counts ==
    /\ sent + (IF AwaitingConfirm THEN 1 ELSE 0) <= arms
    /\ \A i \in 1..Len(hist) :
          LET e == hist[i] IN
          /\ e.ret => e.waiting /\ ~WaitingAfter(i)
          /\ ~e.waiting => ~e.ret
    /\ Len(hist) = 2 /\ hist[1].ret => ~hist[2].ret

C24_Step ==
    /\ sent' \in {sent, sent + 1}
    /\ arms' \in {arms, arms + 1}
    /\ ~(sent' # sent /\ arms' # arms)
    /\ sent' # sent => AwaitingConfirm /\ ~detector'.waiting_for_confirm
    /\ detector' # detector =>
          detector' = [detector EXCEPT !.waiting_for_confirm = ~detector.waiting_for_confirm]
    /\ Len(chan') - Len(chan) = sent' - sent

\* C24: one call of on_input changes the detector by at most one flip of
\* waiting_for_confirm and sends at most one command, never arming and sending
\* in the same call; a call that returns true found AwaitingConfirm and leaves
\* Idle, so the call after it returns false; and the commands sent, plus one
\* while AwaitingConfirm, never exceed the Idle -> AwaitingConfirm transitions,
\* for every pair of bindings, start and confirm on the same key included
C24_OnePerGesture == []C24_Counts /\ [][C24_Step]_vars

\* start and confirm are the same key, it has been pressed four times, and two
\* commands have been sent for two transitions into AwaitingConfirm
C24_Witness ==
    /\ detector.start_binding = detector.confirm_binding
    /\ sent = 2
    /\ arms = 2
    /\ Idle
    /\ Len(hist) = 2
    /\ hist[2].ret
    /\ ~hist[1].ret
    /\ hist[1].input = hist[2].input

\* the numbers of the commands try_recv has returned
ReceivedSet == {received[k] : k \in 1..Len(received)}

C30_Step ==
    Received => \/ Head(chan).seq \in IdsIn(timers')
                \/ timers' = timers

\* C30: with fair ticks and a clock that goes on, every command sent is
\* eventually received, by a step that creates its timer or leaves the pool as
\* it was, and its timer, if it has one, is eventually out of the pool; and
\* once no further command is sent, the pool is eventually empty for good.
\* sent never decreases, so "command n has been sent" leads to "n is received
\* and out of the pool" exactly when, again and again, n is unsent or received
\* and out of the pool
C30_Liveness ==
    /\ \A n \in 1..MaxSent :
          []<>(sent < n \/ (n \in ReceivedSet /\ n \notin IdsIn(timers)))
    /\ [][C30_Step /\ sent' >= sent]_vars
    /\ (\E n \in 0..MaxSent : <>[](sent = n)) => <>[](timers = <<>>)

\* the last command the model sends has been received after the clock has
\* moved, its timer has since run out and been pruned, and the pool is empty
C30_Witness ==
    /\ sent = MaxSent
    /\ Len(received) = MaxSent
    /\ now > 0
    /\ timers = <<>>
    /\ pc = "recv"
    /\ shown = <<>>
    /\ config.overwrite_oldest

\* the 1-based position p holds a timer older than the one at position q
Older(p, q) == IF config.add_new_on_left THEN p > q ELSE p < q

\* C31: in every reachable state, of two timers of the pool the older one (the
\* higher index when new timers are inserted on the left, the lower index
\* otherwise) has the earlier or the same end instant and was created by the
\* earlier command; so whenever a timer is finished every older timer of the
\* pool is finished too: the finished timers are a block at the oldest end
C31_EndsMonotone ==
    \A p, q \in 1..Len(timers) :
        Older(p, q) =>
            /\ timers[p].end_time <= timers[q].end_time
            /\ timers[p].id < timers[q].id
            /\ is_finished(timers[q], now) => is_finished(timers[p], now)

\* a pool of two timers with different end instants, the older one finished
\* and not yet pruned, the newer one still running
C31_Witness ==
    /\ Len(timers) = 2
    /\ \E p, q \in 1..2 :
          /\ Older(p, q)
          /\ timers[p].end_time < timers[q].end_time
          /\ is_finished(timers[p], now)
          /\ ~is_finished(timers[q], now)

\* the press that matches a binding
InputOf(binding) ==
    IF binding.variant = "Key" THEN KeyPress(binding.id) ELSE MousePress(binding.id)

\* on_input called on the inputs of a stream in order: the number of calls that
\* returned true and the detector the last call leaves
RECURSIVE Run(_, _)
Run(self, inputs) ==
    IF inputs = <<>>
    THEN [det |-> self, emitted |-> 0]
    ELSE LET r == on_input(self, Head(inputs))
             rest == Run(r.det, Tail(inputs))
         IN [det |-> rest.det, emitted |-> rest.emitted + (IF r.ret THEN 1 ELSE 0)]

StartInput == InputOf(detector.start_binding)
ConfirmInput == InputOf(detector.confirm_binding)
IdleDetector == [detector EXCEPT !.waiting_for_confirm = FALSE]
ArmedDetector == [detector EXCEPT !.waiting_for_confirm = TRUE]

\* the streams of the claim, fed to the Idle detector of the session
C32_Streams(needed) ==
    MatchesCancel(detector, StartInput) /\ needed =>
        /\ Run(IdleDetector, <<StartInput, StartInput, ConfirmInput>>).emitted = 0
        /\ Run(IdleDetector,
               <<StartInput, StartInput, StartInput, ConfirmInput>>).emitted = 1

\* what the calls of the listener did with a start press that found
\* AwaitingConfirm
C32_Calls ==
    \A i \in 1..Len(hist) :
        LET e == hist[i] IN
        e.waiting /\ e.input = StartInput =>
            /\ MatchesCancel(detector, StartInput) => ~e.ret /\ ~WaitingAfter(i)
            /\ ~MatchesCancel(detector, StartInput) /\ StartInput # ConfirmInput
                   => ~e.ret /\ WaitingAfter(i)

C32_Repeat ==
    ~MatchesCancel(detector, StartInput) /\ StartInput # ConfirmInput =>
        Run(ArmedDetector, <<StartInput>>) = [det |-> ArmedDetector, emitted |-> 0]

OverwriteBranch ==
    /\ pc = "recv"
    /\ chan # <<>>
    /\ ~(Len(timers) < config.max_timers)
    /\ config.overwrite_oldest

\* Vec::remove(index) panics unless index < len; index is 0-based
remove_in_bounds(v, index) == index < Len(v)

C33_Safe ==
    /\ OverwriteBranch =>
          /\ Len(timers) = config.max_timers
          /\ remove_in_bounds(timers, 0)
    /\ pc \in {"retain", "render"} => idx \in 0..Len(timers)
    /\ pc = "render" /\ idx < Len(timers) => smoke_number(timers, config, idx) >= 1

C33_Step ==
    OverwriteBranch /\ Received =>
        /\ Len(timers') = Len(timers)
        /\ Cardinality(IdsIn(timers) \ IdsIn(timers')) = 1
        /\ Head(chan).seq \in IdsIn(timers')

\* C33: with a capacity of at least 1, a command reaches the overwrite branch
\* only when the pool holds exactly max_timers >= 1 timers, so remove(0) is in
\* bounds; the step evicts exactly one timer and adds the new one; and the
\* indices of the retain and render loops stay within the pool, so the
\* subtraction len - i of the display number never goes below 1
C33_NoPanic == []C33_Safe /\ [][C33_Step]_vars

\* capacity 1 with eviction on the right-hand layout: the second command has
\* gone through remove(0) and push before any timer could expire
C33_Witness ==
    /\ config.max_timers = 1
    /\ config.overwrite_oldest
    /\ ~config.add_new_on_left
    /\ now = 0
    /\ received = <<1, 2>>
    /\ IdsIn(timers) = {2}

\* the `_ => {}` arm applied to every event it receives, in the current state
C34_Discarded ==
    /\ \A event \in OtherEvents(detector) : other_event(detector, event) = detector
    /\ \A key \in PressedKeys : other_event(detector, KeyRelease(key)) = detector
    /\ \A button \in PressedButtons :
          other_event(detector, ButtonRelease(button)) = detector

C34_Step ==
    detector' # detector \/ sent' # sent \/ chan' # chan \/ armed' # armed =>
        /\ hist' # hist
        /\ hist'[Len(hist')].input.type \in {"KeyPress", "MousePress"}
        /\ hist'[Len(hist')].waiting = detector.waiting_for_confirm
        /\ detector'.waiting_for_confirm
               = TableRow(detector.waiting_for_confirm, hist'[Len(hist')].input).next

\* C34: a key or button release, a mouse move or a wheel event leaves the
\* detector as it is, in Idle and in AwaitingConfirm; and every step of the
\* listener that changes the detector, the pending gesture or the channel is a
\* call of on_input with a key press or a button press, so nothing else
\* disarms a gesture or sends a command
C34_OtherEventsDiscarded == []C34_Discarded /\ [][C34_Step]_vars

\* a gesture is pending: the start key has been pressed, and its release or a
\* mouse move may arrive before the confirm
C34_Witness ==
    /\ AwaitingConfirm
    /\ armed
    /\ arms = 1
    /\ sent = 0
    /\ hist # <<>>
    /\ Last.input = StartInput
    /\ ENABLED Discard(Release(detector.start_binding))
====
